---------------------------- MODULE Spec2Model ----------------------------
(***************************************************************************)
(* Error-detection and confidence-scoring engine of the Belevita ROI       *)
(* dashboard: scripts/error_detector.py (phrase, behavioural and sentiment *)
(* detectors, pre-AI ensemble), scripts/conversation_analyzer.py (session  *)
(* selection, judge calls over a thread pool) and                          *)
(* scripts/generate_report.py (recombination, orchestration in main).      *)
(*                                                                         *)
(* Scores are Python floats rounded to two decimals.  The model keeps them *)
(* as integers in hundredths of a point (a score of 33.33 is 3333, the cap *)
(* of 100 is 10000) and the weights as integers in hundredths (0.30 is     *)
(* 30), so every sum, division and rounding below is exact.                *)
(***************************************************************************)
EXTENDS Integers, Sequences, FiniteSets, TLC

VARIABLES
    settings,             \* config/settings.py as imported: ERROR_WEIGHTS, ERROR_THRESHOLDS
    sessions,             \* main: extracted_data['sessions'], the input population
    skip_ai_analysis,     \* main: the --skip-ai-analysis flag
    api_key,              \* settings.GOOGLE_API_KEY is set (TRUE) or missing (FALSE)
    pc,                   \* main: position of the orchestrator
    error_analysis,       \* main: the analysis dict, mutated in place by recombination
    basic,                \* the analysis as analyze_all_sessions returned it (history)
    sessions_to_analyze,  \* main: the sessions submitted to the executor, in order
    queue,                \* ThreadPoolExecutor: submitted work items not yet started
    running,              \* ThreadPoolExecutor: work items a worker thread is executing
    ai_results,           \* analyze_sessions_parallel: results, in completion order
    rng,                  \* state of the process-global generator of module random
    mt,                   \* the generator's output stream (fixed, unknown to the program)
    ai_phase,             \* how step 4 of main ended: "none", "skipped", "completed", "aborted"
    judge,                \* what the judge answers for each session of the population
    calls                 \* concurrent invocations of select_sessions_for_analysis:
                          \* for each thread, its position and its local list `selected`

vars == <<settings, sessions, skip_ai_analysis, api_key, pc, error_analysis, basic,
          sessions_to_analyze, queue, running, ai_results, rng, mt, ai_phase, judge,
          calls>>

---------------------------------------------------------------------------
(* Bounds of the model *)

\* sessions in a population of the orchestrator
MaxSessions == 3
\* messages in a session given to the detectors
MaxMsgs == 2
\* sessions in a population given to the selector
MaxPop == 14
\* worker threads of the executor (settings.py configures 50; scaled down so
\* that more sessions are submitted than there are workers)
AI_ANALYSIS_BATCH_SIZE == 2

---------------------------------------------------------------------------
(* config/settings.py *)

\* one point, in the model's unit (round(x, 2) keeps hundredths)
Point == 100

W_phrase_matching == 30
W_behavioral_patterns == 25
W_ai_analysis == 35
W_sentiment_correlation == 10

THRESHOLD_high == 70
THRESHOLD_medium == 40

\* RAPID_ABANDONMENT_THRESHOLD and STUCK_SESSION_THRESHOLD, in seconds
T_RAPID_ABANDONMENT == 120
T_STUCK_SESSION == 1800

\* the file as the repository ships it
RepositorySettings ==
    [ERROR_WEIGHTS |->
        [phrase_matching |-> W_phrase_matching,
         behavioral_patterns |-> W_behavioral_patterns,
         ai_analysis |-> W_ai_analysis,
         sentiment_correlation |-> W_sentiment_correlation],
     ERROR_THRESHOLDS |->
        [high |-> THRESHOLD_high * Point, medium |-> THRESHOLD_medium * Point],
     RAPID_ABANDONMENT_THRESHOLD |-> T_RAPID_ABANDONMENT,
     STUCK_SESSION_THRESHOLD |-> T_STUCK_SESSION]

\* the file edited: other valid thresholds (80 and 50 for the levels, and a
\* stuck threshold of 60 seconds, below the rapid-abandonment threshold)
OtherThresholds ==
    [RepositorySettings EXCEPT
        !.ERROR_THRESHOLDS = [high |-> 80 * Point, medium |-> 50 * Point],
        !.STUCK_SESSION_THRESHOLD = 60]

\* the file edited: weights that sum to 1.10
WeightsNotSummingTo1 ==
    [RepositorySettings EXCEPT !.ERROR_WEIGHTS.ai_analysis = 45]

\* the file edited: a high threshold of 150
ThresholdOutOfRange ==
    [RepositorySettings EXCEPT !.ERROR_THRESHOLDS.high = 150 * Point]

ValidSettings == {RepositorySettings, OtherThresholds}
Configurations == ValidSettings \cup {WeightsNotSummingTo1, ThresholdOutOfRange}

\* from config.settings import ERROR_WEIGHTS, ERROR_THRESHOLDS
ERROR_WEIGHTS == settings.ERROR_WEIGHTS
ERROR_THRESHOLDS == settings.ERROR_THRESHOLDS
RAPID_ABANDONMENT_THRESHOLD == settings.RAPID_ABANDONMENT_THRESHOLD
STUCK_SESSION_THRESHOLD == settings.STUCK_SESSION_THRESHOLD

\* ERROR_DETECTION_SAMPLE_RATE = 0.15, in percent
ERROR_DETECTION_SAMPLE_RATE == 15
SHORT_CONVERSATION_THRESHOLD == 3

---------------------------------------------------------------------------
(* Python built-ins used by the scoring code *)

None == "<None>"

Min(a, b) == IF a <= b THEN a ELSE b
Max(a, b) == IF a >= b THEN a ELSE b

\* round(num / den) to the nearest integer, ties to the even one, den > 0:
\* what round(x, 2) does to a value in hundredths.
Round(num, den) ==
    LET q == num \div den
        r == num % den
    IN  IF 2 * r < den THEN q
        ELSE IF 2 * r > den THEN q + 1
        ELSE IF q % 2 = 0 THEN q ELSE q + 1

\* int(n * percent / 100) for n >= 0: truncation
IntPercent(n, percent) == (n * percent) \div 100

RECURSIVE SumSeq(_)
SumSeq(s) == IF s = <<>> THEN 0 ELSE Head(s) + SumSeq(Tail(s))

Range(s) == {s[i] : i \in 1..Len(s)}

\* str.lower() on the characters of the model's alphabet
LowerChar(c) ==
    CASE c = "A" -> "a"
      [] c = "B" -> "b"
      [] c = "C" -> "c"
      [] OTHER -> c

lower(text) == [i \in 1..Len(text) |-> LowerChar(text[i])]

RECURSIVE lstrip(_)
lstrip(text) ==
    IF text # <<>> /\ Head(text) = " " THEN lstrip(Tail(text)) ELSE text

RECURSIVE rstrip(_)
rstrip(text) ==
    IF text # <<>> /\ text[Len(text)] = " "
    THEN rstrip(SubSeq(text, 1, Len(text) - 1)) ELSE text

strip(text) == rstrip(lstrip(text))

\* phrase in content: contiguous substring
Contains(content, phrase) ==
    \E i \in 0..(Len(content) - Len(phrase)) :
        SubSeq(content, i + 1, i + Len(phrase)) = phrase


---------------------------------------------------------------------------
(* Input domains *)

\* message contents, as sequences of characters
Contents ==
    { <<>>, <<" ">>, <<"x">>, <<"a">>, <<" ", "A">> }

MessageTypes == {"human", "ai"}

\* a row of the chat table: msg['message'] = {type, content}
Messages == [type : MessageTypes, content : Contents]

\* started_at / ended_at: absent, a string fromisoformat rejects, a time in
\* seconds with a UTC offset, or a time in seconds without an offset
Absent == [kind |-> "none", t |-> 0]
Malformed == [kind |-> "bad", t |-> 0]
At(t) == [kind |-> "ok", t |-> t]
Naive(t) == [kind |-> "naive", t |-> t]

\* (started_at, ended_at) pairs: no end, no start, unparseable end, an end
\* 90 seconds later without an offset, and durations of 0, 90, 120, 600 and
\* 1900 seconds
Timings ==
    { <<At(100), Absent>>, <<Absent, At(100)>>, <<At(100), Malformed>>,
      <<At(100), Naive(190)>>,
      <<At(100), At(100)>>, <<At(100), At(190)>>, <<At(100), At(220)>>,
      <<At(100), At(700)>>, <<At(100), At(2000)>> }

Statuses == {"active", "completed", "failed"}

\* analyse_sentimental: the three labels the upstream analysis writes, a label
\* in another spelling, a label the table does not know, and None
Sentiments == {None, "Negativo", "Neutro", "Positivo", " NEGATIVO ", "Misto"}

SeqsUpTo(S, n) == UNION {[1..k -> S] : k \in 0..n}

abc == <<"a", "b", "c">>
Msg(type, content) == [type |-> type, content |-> content]

\* conversations beyond the short ones: a content that matches every phrase
\* of the lexicon, three messages, and the same content three and five times
LongerConversations ==
    { <<Msg("ai", abc), Msg("human", abc)>>,
      <<Msg("human", abc), Msg("human", abc)>>,
      <<Msg("human", <<"x">>), Msg("ai", <<"x">>), Msg("human", <<"a">>)>>,
      <<Msg("human", <<"a">>), Msg("human", <<" ", "A">>), Msg("human", <<"a">>)>>,
      <<Msg("ai", <<"a">>), Msg("ai", <<"a">>), Msg("ai", <<"a">>)>>,
      [i \in 1..5 |-> Msg("human", <<"a">>)] }

\* session['messages']
Conversations == SeqsUpTo(Messages, MaxMsgs) \cup LongerConversations

Session(id, status, sentiment, timing, messages) ==
    [id |-> id, status |-> status, analyse_sentimental |-> sentiment,
     started_at |-> timing[1], ended_at |-> timing[2],
     messages |-> messages, message_count |-> Len(messages)]

---------------------------------------------------------------------------
(* scripts/error_detector.py *)

\* config/error_phrases.json: category -> phrases
error_phrases ==
    [error_indicators |-> << <<"a">>, <<"a", "b">> >>,
     frustration_indicators |-> << <<"b">>, <<"B", "c">> >>,
     escalation_phrases |-> << <<"c">>, <<"a", "b", "c">> >>]

\* the phrases found in the content as it was written
PhraseHitsCaseSensitive(content, phrases) ==
    Cardinality({i \in 1..Len(phrases) : Contains(content, phrases[i])})

\* the phrases of one category found in one message
PhraseHits(content, phrases) ==
    Cardinality({i \in 1..Len(phrases) : Contains(lower(content), lower(phrases[i]))})

RECURSIVE CategoryHits(_, _)
\* categories[category] after the loop over the messages
CategoryHits(messages, phrases) ==
    IF messages = <<>> THEN 0
    ELSE (IF Head(messages).content = <<>> THEN 0
          ELSE PhraseHits(Head(messages).content, phrases))
         + CategoryHits(Tail(messages), phrases)

PhraseScoreUncapped(weighted_score) == weighted_score * 10
PhraseScore(weighted_score) == Min(100 * Point, weighted_score * 10)

detect_phrase_errors(session) ==
    IF session.messages = <<>>
    THEN [score |-> 0, total_matches |-> 0,
          categories |-> [error_indicators |-> 0, frustration_indicators |-> 0,
                          escalation_phrases |-> 0]]
    ELSE
      LET categories ==
            [error_indicators |->
                CategoryHits(session.messages, error_phrases.error_indicators),
             frustration_indicators |->
                CategoryHits(session.messages, error_phrases.frustration_indicators),
             escalation_phrases |->
                CategoryHits(session.messages, error_phrases.escalation_phrases)]
          total_matches == categories.error_indicators
                           + categories.frustration_indicators
                           + categories.escalation_phrases
          \* 1.0, 1.5 and 2.0 points per hit
          weighted_score == categories.error_indicators * Point
                            + categories.frustration_indicators * ((3 * Point) \div 2)
                            + categories.escalation_phrases * 2 * Point
      IN  [score |-> IF total_matches = 0 THEN 0 ELSE PhraseScore(weighted_score),
           total_matches |-> total_matches,
           categories |-> categories]

\* the try block of pattern 2/3: the duration in seconds, or a caught
\* ValueError (fromisoformat) or TypeError (an aware minus a naive datetime)
Duration(session) ==
    IF /\ session.started_at.kind \in {"ok", "naive"}
       /\ session.ended_at.kind = session.started_at.kind
    THEN [ok |-> TRUE, seconds |-> session.ended_at.t - session.started_at.t]
    ELSE [ok |-> FALSE, seconds |-> 0]

\* the stripped, lower-cased, non-empty contents of the messages of every role
ContentsOfEveryRole(messages) ==
    LET NonEmpty(content) == content # <<>>
    IN  SelectSeq([i \in 1..Len(messages) |-> lower(strip(messages[i].content))],
                  NonEmpty)

RECURSIVE HumanContents(_)
\* human_messages: stripped, lower-cased, non-empty contents of the human messages
HumanContents(messages) ==
    IF messages = <<>> THEN <<>>
    ELSE LET content == lower(strip(Head(messages).content))
         IN  (IF Head(messages).type = "human" /\ content # <<>>
              THEN <<content>> ELSE <<>>)
             \o HumanContents(Tail(messages))

Duplicates(messages) ==
    LET human_messages == HumanContents(messages)
    IN  IF Len(human_messages) >= 2
        THEN Len(human_messages) - Cardinality(Range(human_messages))
        ELSE 0

\* a session without messages counted as a short conversation
ShortConversationIncludingEmpty(session) ==
    session.message_count < SHORT_CONVERSATION_THRESHOLD

\* Pattern 1: message_count > 0 and message_count < SHORT_CONVERSATION_THRESHOLD
ShortConversation(session) ==
    /\ session.message_count > 0
    /\ session.message_count < SHORT_CONVERSATION_THRESHOLD

\* Pattern 2: both timestamps present, the duration computed, and
\* 0 < duration < RAPID_ABANDONMENT_THRESHOLD
RapidAbandonment(session) ==
    /\ session.started_at.kind # "none" /\ session.ended_at.kind # "none"
    /\ Duration(session).ok
    /\ 0 < Duration(session).seconds
    /\ Duration(session).seconds < RAPID_ABANDONMENT_THRESHOLD

\* the stuck test as an `if` of its own
StuckSessionIndependent(session) ==
    /\ session.started_at.kind # "none" /\ session.ended_at.kind # "none"
    /\ Duration(session).ok
    /\ session.status = "active"
    /\ Duration(session).seconds > STUCK_SESSION_THRESHOLD

\* Pattern 3: the `elif` of pattern 2
StuckSession(session) ==
    /\ session.started_at.kind # "none" /\ session.ended_at.kind # "none"
    /\ Duration(session).ok
    /\ ~RapidAbandonment(session)
    /\ session.status = "active"
    /\ Duration(session).seconds > STUCK_SESSION_THRESHOLD

\* a session never counted as lacking its sentiment
NoSentimentNever(session) == FALSE

\* `not session.get('analyse_sentimental')`
NoSentiment(session) == session.analyse_sentimental = None

\* the contributions added up instead of averaged
BehavioralScoreSum(score_components) ==
    Min(100 * Point, SumSeq(score_components) * Point)

\* min(100, sum(score_components) / len(score_components)), rounded
BehavioralScore(score_components) ==
    Min(100 * Point, Round(SumSeq(score_components) * Point, Len(score_components)))

detect_behavioral_errors(session) ==
    LET short == ShortConversation(session)
        rapid == RapidAbandonment(session)
        stuck == StuckSession(session)
        duplicates == Duplicates(session.messages)
        failed == session.status = "failed"
        nosent == NoSentiment(session) /\ session.status = "active"
        patterns ==
            (IF short THEN <<"short_conversation">> ELSE <<>>)
            \o (IF rapid THEN <<"rapid_abandonment">> ELSE <<>>)
            \o (IF stuck THEN <<"stuck_session">> ELSE <<>>)
            \o (IF duplicates > 0 THEN <<"repeated_messages">> ELSE <<>>)
            \o (IF failed THEN <<"failed_session">> ELSE <<>>)
            \o (IF nosent THEN <<"no_sentiment_analysis">> ELSE <<>>)
        score_components ==
            (IF short THEN <<30>> ELSE <<>>)
            \o (IF rapid THEN <<40>> ELSE <<>>)
            \o (IF stuck THEN <<35>> ELSE <<>>)
            \o (IF duplicates > 0 THEN <<25 * Min(duplicates, 3)>> ELSE <<>>)
            \o (IF failed THEN <<50>> ELSE <<>>)
            \o (IF nosent THEN <<10>> ELSE <<>>)
    IN  [score |-> IF score_components # <<>>
                   THEN BehavioralScore(score_components) ELSE 0,
         patterns |-> patterns,
         pattern_count |-> Len(patterns)]

\* the label looked up as it was written
LabelAsWritten(raw_sentiment) ==
    IF raw_sentiment = None THEN "" ELSE raw_sentiment

\* (raw_sentiment or '').lower().strip() on the labels of the input domain
NormalizeLabel(raw_sentiment) ==
    CASE raw_sentiment = None -> ""
      [] raw_sentiment = "Negativo" -> "negativo"
      [] raw_sentiment = " NEGATIVO " -> "negativo"
      [] raw_sentiment = "Neutro" -> "neutro"
      [] raw_sentiment = "Positivo" -> "positivo"
      [] raw_sentiment = "Misto" -> "misto"
      [] OTHER -> raw_sentiment

\* every label scored as the neutral one
SentimentAlwaysNeutral(session) ==
    [score |-> 15 * Point, sentiment |-> session.analyse_sentimental]

detect_sentiment_errors(session) ==
    LET sentiment == NormalizeLabel(session.analyse_sentimental)
    IN  [score |-> CASE sentiment = "negativo" -> 80 * Point
                     [] sentiment = "neutro" -> 15 * Point
                     [] sentiment = "positivo" -> 5 * Point
                     [] OTHER -> 15 * Point,
         sentiment |-> session.analyse_sentimental]

\* the weighted sum of the three scores, not divided by the weights used
WeightedSumOnly(phrase_result, behavioral_result, sentiment_result) ==
    Min(100 * Point,
        Round(phrase_result.score * ERROR_WEIGHTS.phrase_matching
              + behavioral_result.score * ERROR_WEIGHTS.behavioral_patterns
              + sentiment_result.score * ERROR_WEIGHTS.sentiment_correlation, 100))

calculate_combined_score(phrase_result, behavioral_result, sentiment_result) ==
    LET combined == phrase_result.score * ERROR_WEIGHTS.phrase_matching
                    + behavioral_result.score * ERROR_WEIGHTS.behavioral_patterns
                    + sentiment_result.score * ERROR_WEIGHTS.sentiment_correlation
        available_weight == ERROR_WEIGHTS.phrase_matching
                            + ERROR_WEIGHTS.behavioral_patterns
                            + ERROR_WEIGHTS.sentiment_correlation
    IN  IF available_weight > 0
        THEN Min(100 * Point, Round(combined, available_weight))
        ELSE Min(100 * Point, combined)

\* a result without the key 'ai_analysis'
NoJudgment ==
    [session_id |-> 0, analyzed |-> FALSE, error |-> "absent",
     score |-> [type |-> "num", val |-> 0]]

ConfidenceLevel(score, high, medium) ==
    IF score >= high THEN "high"
    ELSE IF score >= medium THEN "medium"
    ELSE "low"

analyze_session(session) ==
    LET phrase_result == detect_phrase_errors(session)
        behavioral_result == detect_behavioral_errors(session)
        sentiment_result == detect_sentiment_errors(session)
        combined_score ==
            calculate_combined_score(phrase_result, behavioral_result, sentiment_result)
    IN  [session_id |-> session.id,
         confidence_score |-> combined_score,
         confidence_level |->
            ConfidenceLevel(combined_score, ERROR_THRESHOLDS.high, ERROR_THRESHOLDS.medium),
         phrase_detection |-> phrase_result,
         behavioral_patterns |-> behavioral_result,
         sentiment_correlation |-> sentiment_result,
         has_error |-> combined_score >= ERROR_THRESHOLDS.medium,
         ai_analysis |-> NoJudgment]

CountLevel(results, level) ==
    Cardinality({i \in 1..Len(results) : results[i].confidence_level = level})

\* analyze_all_sessions skipping the sessions without messages
analyze_all_sessions_nonempty(input) ==
    LET Test(s) == s.messages # <<>>
        kept == SelectSeq(input, Test)
        results == [i \in 1..Len(kept) |-> analyze_session(kept[i])]
    IN  [total_sessions |-> Len(input),
         analyzed_sessions |-> Len(results),
         high_confidence_errors |-> CountLevel(results, "high"),
         medium_confidence_errors |-> CountLevel(results, "medium"),
         low_confidence_errors |-> CountLevel(results, "low"),
         results |-> results,
         methods_used |-> <<"phrase_matching", "behavioral_patterns",
                            "sentiment_correlation">>,
         ai_analyzed_sessions |-> 0]

analyze_all_sessions(input) ==
    LET results == [i \in 1..Len(input) |-> analyze_session(input[i])]
    IN  [total_sessions |-> Len(input),
         analyzed_sessions |-> Len(results),
         high_confidence_errors |-> CountLevel(results, "high"),
         medium_confidence_errors |-> CountLevel(results, "medium"),
         low_confidence_errors |-> CountLevel(results, "low"),
         results |-> results,
         methods_used |-> <<"phrase_matching", "behavioral_patterns",
                            "sentiment_correlation">>,
         ai_analyzed_sessions |-> 0]


---------------------------------------------------------------------------
(* scripts/conversation_analyzer.py: the judge *)

\* values of analysis['error_score'] in the judge's JSON object
Num(v) == [type |-> "num", val |-> v]
Null == [type |-> "null", val |-> 0]
Str == [type |-> "str", val |-> 0]
Missing == [type |-> "missing", val |-> 0]

\* What one call of the judge does:
\*   raise        generate_content (or response.text) raises
\*   badjson      the response is not JSON
\*   unprintable  the response is not JSON and the handler's own print of the
\*                response raises (UnicodeEncodeError on a console that cannot
\*                encode it), so the exception leaves analyze_conversation
\*   notobject    the response is JSON but not an object (a list, a number)
\*   object       the response is a JSON object with the given error_score
Raise == [kind |-> "raise", error_score |-> Missing]
BadJson == [kind |-> "badjson", error_score |-> Missing]
Unprintable == [kind |-> "unprintable", error_score |-> Missing]
NotObject == [kind |-> "notobject", error_score |-> Missing]
Object(error_score) == [kind |-> "object", error_score |-> error_score]

\* a failed judgment marked as analyzed
DegradedMarkedAnalyzed(session, reason, score) ==
    [session_id |-> session.id, analyzed |-> TRUE, error |-> reason, score |-> Num(score)]

Degraded(session, reason, score) ==
    [session_id |-> session.id, analyzed |-> FALSE, error |-> reason, score |-> Num(score)]

\* a failed judgment scored like a session without messages
FailureScoreZero == 0 * Point

\* score of a failed judgment (lines 177, 186 and 302)
FailureScore == 50 * Point
\* score of the early return for a session without messages (line 99)
NoMessagesScore == 0

\* analysis.get('error_score', 50)
ErrorScoreOf(outcome) ==
    IF outcome.error_score.type = "missing" THEN Num(50 * Point) ELSE outcome.error_score

\* [raised, value]: the value returned, or an exception leaving the function
analyze_conversation(session, outcome) ==
    IF session.messages = <<>>
    THEN [raised |-> FALSE,
          value |-> Degraded(session, "No messages found", NoMessagesScore)]
    ELSE CASE outcome.kind = "raise" ->
                [raised |-> FALSE, value |-> Degraded(session, "Exception", FailureScore)]
           [] outcome.kind = "badjson" ->
                [raised |-> FALSE,
                 value |-> Degraded(session, "JSON parsing error", FailureScore)]
           [] outcome.kind = "unprintable" ->
                [raised |-> TRUE, value |-> Degraded(session, "UnicodeEncodeError", 0)]
           [] outcome.kind = "notobject" ->
                [raised |-> FALSE,
                 value |-> Degraded(session, "AttributeError", FailureScore)]
           [] OTHER ->
                [raised |-> FALSE,
                 value |-> [session_id |-> session.id, analyzed |-> TRUE,
                            error |-> None, score |-> ErrorScoreOf(outcome)]]

\* the except branch reporting the session of the comprehension's last
\* iteration instead of futures[future]
FutureResultStaleSession(session, outcome) ==
    LET r == analyze_conversation(session, outcome)
    IN  IF r.raised
        THEN [Degraded(session, r.value.error, FailureScore) EXCEPT !.session_id = 0]
        ELSE r.value

\* the body of the as_completed loop: future.result() or the except branch
FutureResult(session, outcome) ==
    LET r == analyze_conversation(session, outcome)
    IN  IF r.raised
        THEN Degraded(session, r.value.error, FailureScore)
        ELSE r.value

---------------------------------------------------------------------------
(* module random, as select_sessions_for_analysis uses it.  The generator is *)
(* a deterministic function of its state: seed sets the state, every draw    *)
(* advances it.  mt selects the stream.                                      *)

RngStates == 64
seed(a) == a % RngStates
RngNext(state, stream) == (13 * state + 2 * stream + 1) % RngStates
\* _randbelow(n), from the advanced state
RandBelow(state, n) == (state \div 4) % n

RECURSIVE sample(_, _, _, _)
\* random.sample(population, k) for a population of at most 21 elements:
\* result[i] = pool[j]; pool[j] = pool[n - i - 1]
sample(pool, k, state, stream) ==
    IF k = 0 THEN [result |-> <<>>, rng |-> state]
    ELSE LET n == Len(pool)
             s1 == RngNext(state, stream)
             j == RandBelow(s1, n) + 1
             moved == [pool EXCEPT ![j] = pool[n]]
             rest == sample(SubSeq(moved, 1, n - 1), k - 1, s1, stream)
         IN  [result |-> <<pool[j]>> \o rest.result, rng |-> rest.rng]

---------------------------------------------------------------------------
(* scripts/conversation_analyzer.py: select_sessions_for_analysis *)

Ids(selected) == {selected[i].id : i \in 1..Len(selected)}

InSessionsDict(input, id) == \E i \in 1..Len(input) : input[i].id = id

\* sessions_dict[id]: the last session of the list with that id
SessionsDict(input, id) ==
    LET last == CHOOSE i \in 1..Len(input) :
                    /\ input[i].id = id
                    /\ \A k \in (i + 1)..Len(input) : input[k].id # id
    IN  input[last]

\* the list by level without the `not in selected` test
ByLevelNoDedup(input, results, level, selected) ==
    LET Test(r) == /\ r.confidence_level = level
                   /\ InSessionsDict(input, r.session_id)
        kept == SelectSeq(results, Test)
    IN  [i \in 1..Len(kept) |-> SessionsDict(input, kept[i].session_id)]

\* [sessions_dict[r['session_id']] for r in results if level and known and new]
ByLevel(input, results, level, selected) ==
    LET Test(r) == /\ r.confidence_level = level
                   /\ InSessionsDict(input, r.session_id)
                   /\ r.session_id \notin Ids(selected)
        kept == SelectSeq(results, Test)
    IN  [i \in 1..Len(kept) |-> SessionsDict(input, kept[i].session_id)]

\* [s for s in sessions if sentiment == label and s['id'] not in selected]
BySentiment(input, label, selected) ==
    LET Test(s) == s.analyse_sentimental = label /\ s.id \notin Ids(selected)
    IN  SelectSeq(input, Test)

Unselected(input, selected) ==
    LET Test(s) == s.id \notin Ids(selected)
    IN  SelectSeq(input, Test)

\* Priority 1 alone: the Negativo sessions are left to the samples
SelectPriority1Only(input, results) == ByLevel(input, results, "high", <<>>)

\* Priority 1 and 2
SelectPriority12(input, results) ==
    LET high_confidence == ByLevel(input, results, "high", <<>>)
    IN  high_confidence \o BySentiment(input, "Negativo", high_confidence)

\* sampling from the state the caller left the generator in
NoSeedBeforeSampling(state) == state

\* random.seed(42): the state of the generator before the first sample,
\* whatever state the caller left it in
SeedBeforeSampling(state) == seed(42)

\* a 30% sample of the medium sessions, from the state the generator is in
SampleMedium(input, results, selected, state, stream) ==
    LET medium_confidence == ByLevel(input, results, "medium", selected)
        medium_sample_size == IntPercent(Len(medium_confidence), 30)
        s == sample(medium_confidence,
                    Min(medium_sample_size, Len(medium_confidence)), state, stream)
    IN  [selected |-> selected \o s.result, rng |-> s.rng]

\* Priority 3: random.seed(42), then the sample of the medium sessions
SelectPriority3(input, results, selected, state, stream) ==
    SampleMedium(input, results, selected, SeedBeforeSampling(state), stream)

\* Priority 4: a 10% sample of the neutral sessions
SelectPriority4(input, selected, state, stream) ==
    LET neutral_sessions == BySentiment(input, "Neutro", selected)
        neutral_sample_size == IntPercent(Len(neutral_sessions), 10)
        s == sample(neutral_sessions,
                    Min(neutral_sample_size, Len(neutral_sessions)), state, stream)
    IN  [selected |-> selected \o s.result, rng |-> s.rng]

\* the fill ignoring what priorities 1 to 4 selected
RemainingNeededFromTarget(target_total, selected) == Max(0, target_total)

RemainingNeeded(target_total, selected) == Max(0, target_total - Len(selected))

\* the selection returned as priorities 1 to 4 left it
SelectPriority5NoFill(input, selected, state, stream) ==
    [selected |-> selected, rng |-> state]

\* Priority 5: fill up to the target sample rate
SelectPriority5(input, selected, state, stream) ==
    LET target_total == IntPercent(Len(input), ERROR_DETECTION_SAMPLE_RATE)
        remaining_needed == RemainingNeeded(target_total, selected)
        remaining_sessions == Unselected(input, selected)
        s == sample(remaining_sessions,
                    Min(remaining_needed, Len(remaining_sessions)), state, stream)
    IN  IF remaining_needed > 0
        THEN [selected |-> selected \o s.result, rng |-> s.rng]
        ELSE [selected |-> selected, rng |-> state]

\* [selected, rng, raised]: the list returned and the generator's state after
\* the call, for the state the generator had before it; raised when the final
\* print divides by len(sessions) = 0
select_sessions_for_analysis(input, results, state, stream) ==
    LET p12 == SelectPriority12(input, results)
        p3 == SelectPriority3(input, results, p12, state, stream)
        p4 == SelectPriority4(input, p3.selected, p3.rng, stream)
        p5 == SelectPriority5(input, p4.selected, p4.rng, stream)
    IN  [selected |-> p5.selected, rng |-> p5.rng, raised |-> Len(input) = 0]


---------------------------------------------------------------------------
(* scripts/generate_report.py: combine_error_analyses *)

\* ai_results_dict = {r['session_id']: r for r in ai_analysis if r.get('analyzed')}
InAiResultsDict(ai_analysis, id) ==
    \E i \in 1..Len(ai_analysis) : ai_analysis[i].session_id = id /\ ai_analysis[i].analyzed

AiResultsDict(ai_analysis, id) ==
    LET last == CHOOSE i \in 1..Len(ai_analysis) :
                    /\ ai_analysis[i].session_id = id /\ ai_analysis[i].analyzed
                    /\ \A k \in (i + 1)..Len(ai_analysis) :
                          ~(ai_analysis[k].session_id = id /\ ai_analysis[k].analyzed)
    IN  ai_analysis[last]

AiResultsDictSize(ai_analysis) ==
    Cardinality({ai_analysis[i].session_id : i \in {k \in 1..Len(ai_analysis) :
                                                       ai_analysis[k].analyzed}})

\* the basic part taken from the score the result currently carries
PostAiWeightedSumFromScore(result, ai_result) ==
    result.confidence_score
    * (ERROR_WEIGHTS.phrase_matching + ERROR_WEIGHTS.behavioral_patterns
       + ERROR_WEIGHTS.sentiment_correlation)
    + ai_result.score.val * ERROR_WEIGHTS.ai_analysis

\* basic_score + ai_score, in hundredths of a point times hundredths of weight
PostAiWeightedSum(result, ai_result) ==
    result.phrase_detection.score * ERROR_WEIGHTS.phrase_matching
    + result.behavioral_patterns.score * ERROR_WEIGHTS.behavioral_patterns
    + result.sentiment_correlation.score * ERROR_WEIGHTS.sentiment_correlation
    + ai_result.score.val * ERROR_WEIGHTS.ai_analysis

\* the body of the loop classifying with the thresholds of settings.py
RecombineConfiguredThresholds(result, ai_result) ==
    LET combined_score == PostAiWeightedSum(result, ai_result)
    IN  [result EXCEPT
            !.confidence_score = Round(combined_score, 100),
            !.ai_analysis = ai_result,
            !.confidence_level = ConfidenceLevel(combined_score,
                                                 ERROR_THRESHOLDS.high * 100,
                                                 ERROR_THRESHOLDS.medium * 100),
            !.has_error = combined_score >= ERROR_THRESHOLDS.medium * 100]

\* lines 84-107: the body of the loop for a session with an analyzed judgment
Recombine(result, ai_result) ==
    LET combined_score == PostAiWeightedSum(result, ai_result)
    IN  [result EXCEPT
            !.confidence_score = Round(combined_score, 100),
            !.ai_analysis = ai_result,
            !.confidence_level = ConfidenceLevel(combined_score, 70 * Point * 100,
                                                 40 * Point * 100),
            !.has_error = combined_score >= 40 * Point * 100]

\* ai_result['score'] * ERROR_WEIGHTS['ai_analysis'] raises TypeError
ScoreRaises(ai_result) == ai_result.score.type # "num"

\* [raised, analysis]: the dict is updated in place, so an exception in the
\* loop leaves the sessions before it recombined and the summary as it was
combine_error_analyses(basic_analysis, ai_analysis) ==
    IF ai_analysis = <<>> THEN [raised |-> FALSE, analysis |-> basic_analysis]
    ELSE
      LET results == basic_analysis.results
          Judged(i) == InAiResultsDict(ai_analysis, results[i].session_id)
          Bad(i) == Judged(i)
                    /\ ScoreRaises(AiResultsDict(ai_analysis, results[i].session_id))
          raised == \E i \in 1..Len(results) : Bad(i)
          Reached(i) == \A k \in 1..i : ~Bad(k)
          updated == [i \in 1..Len(results) |->
                        IF Judged(i) /\ Reached(i)
                        THEN Recombine(results[i],
                                       AiResultsDict(ai_analysis, results[i].session_id))
                        ELSE results[i]]
      IN  IF raised
          THEN [raised |-> TRUE,
                analysis |-> [basic_analysis EXCEPT !.results = updated]]
          ELSE [raised |-> FALSE,
                analysis |->
                  [basic_analysis EXCEPT
                     !.results = updated,
                     !.high_confidence_errors = CountLevel(updated, "high"),
                     !.medium_confidence_errors = CountLevel(updated, "medium"),
                     !.low_confidence_errors = CountLevel(updated, "low"),
                     !.methods_used = Append(@, "ai_analysis"),
                     !.ai_analyzed_sessions = AiResultsDictSize(ai_analysis)]]

---------------------------------------------------------------------------
(* scripts/generate_report.py: main, steps 3 and 4, and the executor of     *)
(* analyze_sessions_parallel                                                *)

NoAnalysis ==
    [total_sessions |-> 0, analyzed_sessions |-> 0, high_confidence_errors |-> 0,
     medium_confidence_errors |-> 0, low_confidence_errors |-> 0, results |-> <<>>,
     methods_used |-> <<>>, ai_analyzed_sessions |-> 0]

\* [3/6]: detector.analyze_all_sessions(sessions)
DetectErrors ==
    /\ pc = "detect"
    /\ error_analysis' = analyze_all_sessions(sessions)
    /\ basic' = analyze_all_sessions(sessions)
    /\ pc' = "step4"
    /\ UNCHANGED <<calls, settings, sessions, skip_ai_analysis, api_key, sessions_to_analyze, queue,
                   running, ai_results, rng, mt, ai_phase, judge>>

\* [4/6] with --skip-ai-analysis
SkipAIAnalysis ==
    /\ pc = "step4"
    /\ skip_ai_analysis
    /\ ai_phase' = "skipped"
    /\ pc' = "save"
    /\ UNCHANGED <<calls, settings, sessions, skip_ai_analysis, api_key, error_analysis, basic,
                   sessions_to_analyze, queue, running, ai_results, rng, mt, judge>>

\* ConversationAnalyzer() raises ValueError without an API key
AnalyzerFails ==
    /\ pc = "step4"
    /\ ~skip_ai_analysis
    /\ ~api_key
    /\ ai_phase' = "aborted"
    /\ pc' = "save"
    /\ UNCHANGED <<calls, settings, sessions, skip_ai_analysis, api_key, error_analysis, basic,
                   sessions_to_analyze, queue, running, ai_results, rng, mt, judge>>

\* select_sessions_for_analysis, then executor.submit for every session
SelectAndSubmit ==
    /\ pc = "step4"
    /\ ~skip_ai_analysis
    /\ api_key
    /\ LET sel == select_sessions_for_analysis(sessions, error_analysis.results, rng, mt)
       IN  /\ rng' = sel.rng
           /\ IF sel.raised
              THEN /\ ai_phase' = "aborted"
                   /\ pc' = "save"
                   /\ UNCHANGED <<sessions_to_analyze, queue>>
              ELSE /\ sessions_to_analyze' = sel.selected
                   /\ queue' = [i \in 1..Len(sel.selected) |-> i]
                   /\ pc' = "judging"
                   /\ UNCHANGED ai_phase
    /\ UNCHANGED <<calls, settings, sessions, skip_ai_analysis, api_key, error_analysis, basic,
                   running, ai_results, mt, judge>>

\* a pool without a limit: a thread per submitted work item
WorkerAlways == TRUE

\* ThreadPoolExecutor(max_workers=AI_ANALYSIS_BATCH_SIZE): a worker thread is
\* free to take the next work item
WorkerAvailable == Cardinality(running) < AI_ANALYSIS_BATCH_SIZE

\* an idle worker thread takes the oldest work item and calls analyze_conversation
WorkerStart ==
    /\ pc = "judging"
    /\ queue # <<>>
    /\ WorkerAvailable
    /\ running' = running \cup {Head(queue)}
    /\ queue' = Tail(queue)
    /\ UNCHANGED <<calls, settings, sessions, skip_ai_analysis, api_key, pc, error_analysis, basic,
                   sessions_to_analyze, ai_results, rng, mt, ai_phase, judge>>

\* the judge's answer for a submitted session
OutcomeFor(session) ==
    LET i == CHOOSE k \in 1..Len(sessions) : sessions[k].id = session.id
    IN  judge[i]

\* a call completes; as_completed yields its future and the loop appends
WorkerFinish(i) ==
    /\ pc = "judging"
    /\ i \in running
    /\ running' = running \ {i}
    /\ ai_results' = Append(ai_results,
                            FutureResult(sessions_to_analyze[i],
                                         OutcomeFor(sessions_to_analyze[i])))
    /\ UNCHANGED <<calls, settings, sessions, skip_ai_analysis, api_key, pc, error_analysis, basic,
                   sessions_to_analyze, queue, rng, mt, ai_phase, judge>>

\* returning as soon as nothing is left to start
QueueDrained == queue = <<>>

\* the as_completed loop and the with block end: every future is done
AllCompleted == queue = <<>> /\ running = {}

\* analyze_sessions_parallel returns; combine_error_analyses(error_analysis, ai_results)
CombineResults ==
    /\ pc = "judging"
    /\ AllCompleted
    /\ LET c == combine_error_analyses(error_analysis, ai_results)
       IN  /\ error_analysis' = c.analysis
           /\ ai_phase' = IF c.raised THEN "aborted" ELSE "completed"
    /\ pc' = "save"
    /\ UNCHANGED <<calls, settings, sessions, skip_ai_analysis, api_key, basic, sessions_to_analyze,
                   queue, running, ai_results, rng, mt, judge>>

\* save_json_output(error_analysis, 'error_analysis.json')
SaveOutput ==
    /\ pc = "save"
    /\ pc' = "done"
    /\ UNCHANGED <<calls, settings, sessions, skip_ai_analysis, api_key, error_analysis, basic,
                   sessions_to_analyze, queue, running, ai_results, rng, mt,
                   ai_phase, judge>>


---------------------------------------------------------------------------
(* The orchestrator on small populations: Spec *)


\* pre-AI level high, selected by priority 1
HighNeg(id) ==
    Session(id, "failed", "Negativo", <<At(100), Absent>>,
            <<Msg("ai", abc), Msg("ai", abc), Msg("ai", abc)>>)
\* pre-AI level low, selected by priority 2
NegLow(id) ==
    Session(id, "completed", "Negativo", <<At(100), At(700)>>, <<Msg("human", <<"x">>)>>)
\* selected by priority 2, without messages
NegEmpty(id) == Session(id, "completed", "Negativo", <<At(100), Absent>>, <<>>)
\* pre-AI level medium, not selected in a small population
MediumNeu(id) ==
    Session(id, "completed", "Neutro", <<At(100), At(700)>>, <<Msg("human", abc)>>)
\* pre-AI level low, not selected
LowPos(id) ==
    Session(id, "completed", "Positivo", <<At(100), At(700)>>,
            <<Msg("human", <<"x">>), Msg("ai", <<"x">>), Msg("human", <<"a">>)>>)

\* (profile, judge outcome) pairs a population is drawn from
Cases ==
    << <<"NegLow", Object(Num(90 * Point))>>,
       <<"HighNeg", Object(Num(90 * Point))>>,
       <<"HighNeg", Object(Num(150 * Point))>>,
       <<"HighNeg", Object(Num(5571))>>,
       <<"HighNeg", Object(Missing)>>,
       <<"HighNeg", Object(Null)>>,
       <<"HighNeg", Object(Str)>>,
       <<"HighNeg", Raise>>,
       <<"HighNeg", BadJson>>,
       <<"HighNeg", Unprintable>>,
       <<"HighNeg", NotObject>>,
       <<"NegLow", Raise>>,
       <<"NegEmpty", Raise>>,
       <<"MediumNeu", Raise>>,
       <<"LowPos", Raise>> >>

Profile(name, id) ==
    CASE name = "HighNeg" -> HighNeg(id)
      [] name = "NegLow" -> NegLow(id)
      [] name = "NegEmpty" -> NegEmpty(id)
      [] name = "MediumNeu" -> MediumNeu(id)
      [] OTHER -> LowPos(id)

\* populations of up to MaxSessions cases, listed in the order of Cases;
\* session ids are the primary keys 1..n
Populations ==
    UNION { {c \in [1..n -> 1..Len(Cases)] : \A i \in 1..(n - 1) : c[i] <= c[i + 1]}
            : n \in 0..MaxSessions }

Idle ==
    /\ sessions_to_analyze = <<>>
    /\ queue = <<>>
    /\ running = {}
    /\ ai_results = <<>>
    /\ ai_phase = "none"
    /\ calls = <<>>

Init ==
    /\ settings \in Configurations
    /\ \E c \in Populations :
          /\ sessions = [i \in 1..Len(c) |-> Profile(Cases[c[i]][1], i)]
          /\ judge = [i \in 1..Len(c) |-> Cases[c[i]][2]]
    /\ \E mode \in {"skip", "nokey", "full"} :
          /\ skip_ai_analysis = (mode = "skip")
          /\ api_key = (mode # "nokey")
    /\ pc = "detect"
    /\ error_analysis = NoAnalysis
    /\ basic = NoAnalysis
    /\ rng = 0
    /\ mt = 0
    /\ Idle

Next ==
    \/ DetectErrors
    \/ SkipAIAnalysis
    \/ AnalyzerFails
    \/ SelectAndSubmit
    \/ WorkerStart
    \/ \E i \in 1..Len(sessions_to_analyze) : WorkerFinish(i)
    \/ CombineResults
    \/ SaveOutput

Spec == Init /\ [][Next]_vars

---------------------------------------------------------------------------
(* The detectors on every session of the input domains: SpecDetect *)

InitDetect ==
    /\ settings \in ValidSettings
    /\ \E status \in Statuses, sentiment \in Sentiments, timing \in Timings,
          messages \in Conversations :
          sessions = <<Session(1, status, sentiment, timing, messages)>>
    /\ judge = <<Raise>>
    /\ skip_ai_analysis = TRUE
    /\ api_key = TRUE
    /\ pc = "detect"
    /\ error_analysis = NoAnalysis
    /\ basic = NoAnalysis
    /\ rng = 0
    /\ mt = 0
    /\ Idle

NextDetect == DetectErrors

SpecDetect == InitDetect /\ [][NextDetect]_vars

---------------------------------------------------------------------------
(* The selector on populations with given pre-AI results: SpecSelect *)

\* (confidence_level, analyse_sentimental) of the sessions of a population
SelectionClasses ==
    << <<"high", "Negativo">>, <<"medium", "Negativo">>, <<"medium", "Neutro">>,
       <<"low", "Neutro">>, <<"low", "Positivo">> >>

RECURSIVE ClassAt(_, _, _)
\* the class of position i in a population with counts[k] sessions of class k
ClassAt(i, counts, k) ==
    IF i <= counts[k] THEN k ELSE ClassAt(i - counts[k], counts, k + 1)

Streams == {0, 1}
PriorRngStates == {0, 5}

InitSelect ==
    /\ settings = RepositorySettings
    /\ \E c1 \in 0..MaxPop :
       \E c2 \in 0..(MaxPop - c1) :
       \E c3 \in 0..(MaxPop - c1 - c2) :
       \E c4 \in 0..(MaxPop - c1 - c2 - c3) :
       \E c5 \in 0..(MaxPop - c1 - c2 - c3 - c4) :
          LET counts == <<c1, c2, c3, c4, c5>>
              n == c1 + c2 + c3 + c4 + c5
              class == [i \in 1..n |-> SelectionClasses[ClassAt(i, counts, 1)]]
          IN  /\ sessions = [i \in 1..n |->
                               Session(i, "completed", class[i][2],
                                       <<At(100), At(700)>>, <<>>)]
              /\ error_analysis =
                    [NoAnalysis EXCEPT
                       !.total_sessions = n,
                       !.analyzed_sessions = n,
                       !.results = [i \in 1..n |->
                                      [session_id |-> i,
                                       confidence_level |-> class[i][1]]]]
    /\ basic = error_analysis
    /\ judge = [i \in 1..Len(sessions) |-> Raise]
    /\ skip_ai_analysis = FALSE
    /\ api_key = TRUE
    /\ pc = "step4"
    /\ rng \in PriorRngStates
    /\ mt \in Streams
    /\ Idle

NextSelect == SelectAndSubmit

SpecSelect == InitSelect /\ [][NextSelect]_vars

---------------------------------------------------------------------------
(* Two threads of one process inside select_sessions_for_analysis with the   *)
(* same arguments.  `selected` is local to each invocation; random.seed and  *)
(* random.sample work on the one generator of module random.  A thread can   *)
(* be preempted between any two of its calls to the generator.               *)

Threads == {1, 2}

\* lines 208-239: priorities 1 and 2, then random.seed(42)
SelectorSeed(t) ==
    /\ calls[t].at = "seed"
    /\ calls' = [calls EXCEPT
                   ![t] = [at |-> "medium",
                           selected |-> SelectPriority12(sessions, error_analysis.results)]]
    /\ rng' = SeedBeforeSampling(rng)
    /\ UNCHANGED <<settings, sessions, skip_ai_analysis, api_key, pc, error_analysis, basic,
                   sessions_to_analyze, queue, running, ai_results, mt, ai_phase, judge>>

\* lines 230-243: the sample of the medium sessions
SelectorSampleMedium(t) ==
    /\ calls[t].at = "medium"
    /\ LET p3 == SampleMedium(sessions, error_analysis.results, calls[t].selected, rng, mt)
       IN  /\ calls' = [calls EXCEPT ![t] = [at |-> "neutral", selected |-> p3.selected]]
           /\ rng' = p3.rng
    /\ UNCHANGED <<settings, sessions, skip_ai_analysis, api_key, pc, error_analysis, basic,
                   sessions_to_analyze, queue, running, ai_results, mt, ai_phase, judge>>

\* lines 245-253: the sample of the neutral sessions
SelectorSampleNeutral(t) ==
    /\ calls[t].at = "neutral"
    /\ LET p4 == SelectPriority4(sessions, calls[t].selected, rng, mt)
       IN  /\ calls' = [calls EXCEPT ![t] = [at |-> "fill", selected |-> p4.selected]]
           /\ rng' = p4.rng
    /\ UNCHANGED <<settings, sessions, skip_ai_analysis, api_key, pc, error_analysis, basic,
                   sessions_to_analyze, queue, running, ai_results, mt, ai_phase, judge>>

\* lines 255-270: the fill up to the target, then return selected
SelectorFill(t) ==
    /\ calls[t].at = "fill"
    /\ LET p5 == SelectPriority5(sessions, calls[t].selected, rng, mt)
       IN  /\ calls' = [calls EXCEPT ![t] = [at |-> "returned", selected |-> p5.selected]]
           /\ rng' = p5.rng
    /\ UNCHANGED <<settings, sessions, skip_ai_analysis, api_key, pc, error_analysis, basic,
                   sessions_to_analyze, queue, running, ai_results, mt, ai_phase, judge>>

\* populations of medium and low sessions without Negativo ones, so that
\* everything selected comes from the three samples
InitConcurrent ==
    /\ settings = RepositorySettings
    /\ \E c3 \in 0..MaxPop :
       \E c4 \in 0..(MaxPop - c3) :
       \E c5 \in 1..(MaxPop - c3 - c4) :
          LET counts == <<0, 0, c3, c4, c5>>
              n == c3 + c4 + c5
              class == [i \in 1..n |-> SelectionClasses[ClassAt(i, counts, 1)]]
          IN  /\ sessions = [i \in 1..n |->
                               Session(i, "completed", class[i][2],
                                       <<At(100), At(700)>>, <<>>)]
              /\ error_analysis =
                    [NoAnalysis EXCEPT
                       !.total_sessions = n,
                       !.analyzed_sessions = n,
                       !.results = [i \in 1..n |->
                                      [session_id |-> i,
                                       confidence_level |-> class[i][1]]]]
    /\ basic = error_analysis
    /\ judge = [i \in 1..Len(sessions) |-> Raise]
    /\ skip_ai_analysis = FALSE
    /\ api_key = TRUE
    /\ pc = "step4"
    /\ rng \in PriorRngStates
    /\ mt \in Streams
    /\ sessions_to_analyze = <<>>
    /\ queue = <<>>
    /\ running = {}
    /\ ai_results = <<>>
    /\ ai_phase = "none"
    /\ calls = [t \in Threads |-> [at |-> "seed", selected |-> <<>>]]

NextConcurrent ==
    \E t \in Threads :
        \/ SelectorSeed(t)
        \/ SelectorSampleMedium(t)
        \/ SelectorSampleNeutral(t)
        \/ SelectorFill(t)

SpecConcurrent == InitConcurrent /\ [][NextConcurrent]_vars


---------------------------------------------------------------------------
(* Properties *)

InRange(score) == 0 <= score /\ score <= 100 * Point

Results == error_analysis.results

\* step 4 of main is over
Step4Over == pc \in {"save", "done"}

\* the sessions submitted to the executor, as indices of sessions_to_analyze
Submitted == 1..Len(sessions_to_analyze)

\* the judge call proper is made for a submitted session that has messages
Called(i) == sessions_to_analyze[i].messages # <<>>

JudgmentsOf(id) == {k \in 1..Len(ai_results) : ai_results[k].session_id = id}

SessionOf(result) == CHOOSE k \in 1..Len(sessions) : sessions[k].id = result.session_id

HasJudgment(result) == result.ai_analysis.error # "absent"

\* C1: every score the detectors return for a session (phrase, behavioural,
\* sentiment) and the pre-AI combined score lie in [0,100].
C1_DetectorScoresInRange ==
    \A i \in 1..Len(Results) :
        /\ InRange(Results[i].phrase_detection.score)
        /\ InRange(Results[i].behavioral_patterns.score)
        /\ InRange(Results[i].sentiment_correlation.score)
        /\ InRange(Results[i].confidence_score)

\* C1 witness: a session whose phrase hits exceed the cap and that triggers
\* behavioural patterns has been scored
C1_Witness ==
    /\ pc = "step4"
    /\ Len(Results) = 1
    /\ Results[1].phrase_detection.score = 100 * Point
    /\ Results[1].phrase_detection.total_matches > 6
    /\ Results[1].behavioral_patterns.pattern_count >= 2
    /\ Results[1].sentiment_correlation.score = 80 * Point

\* C2 (as claimed): after recombination every confidence_score lies in
\* [0,100] and every attached AI judgment has a numeric score in [0,100].
C2_PostAiScoresInRange ==
    (Step4Over /\ ai_phase = "completed") =>
        \A i \in 1..Len(Results) :
            /\ InRange(Results[i].confidence_score)
            /\ HasJudgment(Results[i]) =>
                  /\ Results[i].ai_analysis.score.type = "num"
                  /\ InRange(Results[i].ai_analysis.score.val)

\* C3: the emitted result set has exactly one entry per input session, on
\* every path of step 4 (skipped, completed, degraded judgments, aborted).
C3_OneResultPerSession ==
    Step4Over =>
        /\ Len(Results) = Len(sessions)
        /\ \A i \in 1..Len(sessions) :
              Cardinality({k \in 1..Len(Results) :
                              Results[k].session_id = sessions[i].id}) = 1

\* C3 witness: the AI phase was aborted by an exception of the recombination
\* after part of the results were recombined, and the result set was emitted
C3_Witness ==
    /\ pc = "done"
    /\ ai_phase = "aborted"
    /\ Len(sessions) = MaxSessions
    /\ \E i \in 1..Len(Results) : HasJudgment(Results[i])
    /\ \E k \in 1..Len(ai_results) : ~ai_results[k].analyzed
    /\ \E i \in 1..Len(sessions) : sessions[i].messages = <<>>

\* the judge call of submitted session i raises an exception
CallRaises(i) ==
    /\ Called(i)
    /\ OutcomeFor(sessions_to_analyze[i]).kind \in {"raise", "unprintable"}

\* C4: when the judge call of a session raises, analyze_sessions_parallel
\* still returns exactly one judgment per submitted session; the failing
\* session's judgment is analyzed=false with score 50; the judgment of every
\* other session is the one its own judge call gives.
C4_FailureIsolated ==
    Step4Over =>
        /\ Len(ai_results) = Len(sessions_to_analyze)
        /\ \A i \in Submitted :
              /\ Cardinality(JudgmentsOf(sessions_to_analyze[i].id)) = 1
              /\ \A k \in JudgmentsOf(sessions_to_analyze[i].id) :
                    IF CallRaises(i)
                    THEN /\ ~ai_results[k].analyzed
                         /\ ai_results[k].score = Num(50 * Point)
                    ELSE ai_results[k] =
                            analyze_conversation(sessions_to_analyze[i],
                                OutcomeFor(sessions_to_analyze[i])).value

\* C4 witness: a batch returned in which one call raised inside
\* analyze_conversation's try, one raised out of it, and one was analyzed
C4_Witness ==
    /\ Step4Over
    /\ Len(ai_results) = 3
    /\ \E i \in Submitted :
          Called(i) /\ OutcomeFor(sessions_to_analyze[i]).kind = "raise"
    /\ \E i \in Submitted :
          Called(i) /\ OutcomeFor(sessions_to_analyze[i]).kind = "unprintable"
    /\ \E k \in 1..Len(ai_results) : ai_results[k].analyzed

\* the judge answered submitted session i with a malformed payload
Malformed_Payload(i) ==
    LET o == OutcomeFor(sessions_to_analyze[i])
    IN  /\ Called(i)
        /\ \/ o.kind \in {"badjson", "notobject"}
           \/ o.kind = "object" /\ o.error_score.type \in {"missing", "null", "str"}

\* the judge answered submitted session i with an object holding a number
Numeric_Payload(i) ==
    LET o == OutcomeFor(sessions_to_analyze[i])
    IN  Called(i) /\ o.kind = "object" /\ o.error_score.type = "num"

\* C5 (as claimed): a malformed payload for one session is a recoverable
\* per-item failure: the batch and the recombination complete, and every
\* other session ends as it would without it (recombined with its own
\* judgment when that was analyzed, as the pre-AI ensemble left it otherwise).
C5_MalformedPayloadRecoverable ==
    (/\ pc = "done"
     /\ Cardinality({i \in Submitted : Malformed_Payload(i)}) = 1) =>
        /\ ai_phase = "completed"
        /\ \A i \in 1..Len(Results) :
              LET s == SessionOf(Results[i])
                  Mine(j) == sessions_to_analyze[j].id = sessions[s].id
              IN  IF \E j \in Submitted : Mine(j) /\ Malformed_Payload(j)
                  THEN TRUE
                  ELSE IF \E j \in Submitted : Mine(j) /\ Numeric_Payload(j)
                  THEN Results[i] =
                          Recombine(basic.results[i],
                                    analyze_conversation(sessions[s], judge[s]).value)
                  ELSE Results[i] = basic.results[i]

\* C6 (as claimed): every judgment with analyzed=false carries a failure
\* reason and score exactly 50, whatever the cause.
C6_DegradedScoreAlways50 ==
    \A k \in 1..Len(ai_results) :
        ~ai_results[k].analyzed =>
            /\ ai_results[k].error # None
            /\ ai_results[k].score = Num(50 * Point)

\* C6 (amended): every judgment with analyzed=false carries a failure reason;
\* its score is 50 when the judge was called and failed, and 0 with reason
\* 'No messages found' when the session has no messages.
C6_DegradedScore50Or0 ==
    \A k \in 1..Len(ai_results) :
        ~ai_results[k].analyzed =>
            /\ ai_results[k].error # None
            /\ \E i \in Submitted :
                  /\ sessions_to_analyze[i].id = ai_results[k].session_id
                  /\ IF Called(i)
                     THEN ai_results[k].score = Num(50 * Point)
                     ELSE /\ ai_results[k].score = Num(0)
                          /\ ai_results[k].error = "No messages found"

\* C6 witness: a batch holding a judgment for a session without messages, one
\* from a handler of analyze_conversation and one from the except branch of
\* analyze_sessions_parallel
C6_Witness ==
    /\ Len(ai_results) = 3
    /\ \E k \in 1..3 : ai_results[k].error = "No messages found"
    /\ \E k \in 1..3 : ai_results[k].error = "JSON parsing error"
    /\ \E k \in 1..3 : ai_results[k].error = "UnicodeEncodeError"

\* C7: at every moment the calls started and not finished are at most the
\* size of the worker pool.
C7_PoolBound == Cardinality(running) <= AI_ANALYSIS_BATCH_SIZE

\* C7 witness: the pool is full while submitted sessions still wait
C7_Witness ==
    /\ pc = "judging"
    /\ Cardinality(running) = AI_ANALYSIS_BATCH_SIZE
    /\ queue # <<>>

\* the judgments of the submitted sessions, listed in submission order
InSubmissionOrder ==
    [i \in Submitted |->
        FutureResult(sessions_to_analyze[i], OutcomeFor(sessions_to_analyze[i]))]

\* C8: recombination starts only after every dispatched call has completed,
\* and the result set is the one the judgments give in submission order,
\* whatever order the calls completed in.
C8_JoinThenDeterministic ==
    Step4Over =>
        /\ queue = <<>>
        /\ running = {}
        /\ Len(ai_results) = Len(sessions_to_analyze)
        /\ error_analysis = combine_error_analyses(basic, InSubmissionOrder).analysis

\* C8 witness: the calls completed out of submission order and the results
\* were recombined and emitted
C8_Witness ==
    /\ pc = "done"
    /\ ai_phase = "completed"
    /\ Len(ai_results) = 3
    /\ ai_results[1].session_id = sessions_to_analyze[2].id
    /\ ai_results[3].session_id = sessions_to_analyze[1].id
    /\ \E i \in 1..Len(Results) : Results[i].confidence_level # basic.results[i].confidence_level

\* the selector has returned its list
Selected == pc = "judging"

LevelOf(id) ==
    LET k == CHOOSE k \in 1..Len(Results) : Results[k].session_id = id
    IN  Results[k].confidence_level

\* C9: the list select_sessions_for_analysis returns holds no identifier twice.
C9_NoDuplicateSelection ==
    Selected =>
        \A i, j \in Submitted :
            i # j => sessions_to_analyze[i].id # sessions_to_analyze[j].id

\* C9 witness: priorities 1, 2 and 3 each added a session, among them sessions
\* that qualify for two priorities, and medium sessions were left out
C9_Witness ==
    /\ Selected
    /\ \E i \in Submitted :
          /\ LevelOf(sessions_to_analyze[i].id) = "high"
          /\ sessions_to_analyze[i].analyse_sentimental = "Negativo"
    /\ \E i \in Submitted :
          /\ LevelOf(sessions_to_analyze[i].id) = "medium"
          /\ sessions_to_analyze[i].analyse_sentimental = "Negativo"
    /\ \E i \in Submitted :
          /\ LevelOf(sessions_to_analyze[i].id) = "medium"
          /\ sessions_to_analyze[i].analyse_sentimental # "Negativo"
    /\ \E i \in 1..Len(sessions) :
          /\ LevelOf(sessions[i].id) = "medium"
          /\ sessions[i].id \notin Ids(sessions_to_analyze)

TargetTotal == IntPercent(Len(sessions), ERROR_DETECTION_SAMPLE_RATE)

\* what priorities 1 to 4 select from the population
Priorities1To4 ==
    LET p12 == SelectPriority12(sessions, Results)
        p3 == SelectPriority3(sessions, Results, p12, 0, mt)
    IN  SelectPriority4(sessions, p3.selected, p3.rng, mt).selected

\* C10 (as claimed): the number of sessions selected does not exceed the
\* configured target, ERROR_DETECTION_SAMPLE_RATE x population size.
C10_SelectionWithinTarget ==
    Selected => Len(sessions_to_analyze) <= TargetTotal

\* C10 (amended): the number of sessions selected is the larger of the
\* configured target and the number priorities 1 to 4 select, and is at most
\* the population size.
C10_SelectionBound ==
    Selected =>
        /\ Len(sessions_to_analyze) = Max(TargetTotal, Len(Priorities1To4))
        /\ Len(sessions_to_analyze) <= Len(sessions)

\* C10 witness: priorities 1 to 4 stay below a positive target and the fill
\* of priority 5 brings the selection up to it
C10_Witness ==
    /\ Selected
    /\ TargetTotal >= 1
    /\ 0 < Len(Priorities1To4)
    /\ Len(Priorities1To4) < TargetTotal
    /\ Len(sessions_to_analyze) = TargetTotal

\* the identifiers a call of the selector returns, in order, when the caller
\* left the generator in the given state
IdsSelectedFrom(state) ==
    LET sel == select_sessions_for_analysis(sessions, basic.results, state, mt)
    IN  [i \in 1..Len(sel.selected) |-> sel.selected[i].id]

\* C11: for the same sessions in the same order and the same pre-AI results,
\* every invocation of select_sessions_for_analysis returns the identifiers
\* the first one returned, whatever state the random generator was left in
\* before the call: one of the states the callers of the model leave it in,
\* or the state the previous invocation left.
C11_SelectionReproducible ==
    Selected =>
        \A state \in PriorRngStates \cup {rng} :
            IdsSelectedFrom(state) =
                [i \in 1..Len(sessions_to_analyze) |-> sessions_to_analyze[i].id]

\* C11 witness: the selector was called with a generator already used and
\* drew a sample of the medium sessions, leaving other medium sessions out,
\* and filled from the rest
C11_Witness ==
    /\ Selected
    /\ rng # seed(42)
    /\ \E i \in Submitted :
          /\ LevelOf(sessions_to_analyze[i].id) = "medium"
          /\ sessions_to_analyze[i].analyse_sentimental # "Negativo"
    /\ \E i \in 1..Len(sessions) :
          /\ LevelOf(sessions[i].id) = "medium"
          /\ sessions[i].id \notin Ids(sessions_to_analyze)

\* the sessions of the population that priorities 1 and 2 name
MustSelect ==
    {i \in 1..Len(sessions) :
        \/ LevelOf(sessions[i].id) = "high"
        \/ sessions[i].analyse_sentimental = "Negativo"}

Detected == pc = "step4"

Abs(x) == IF x >= 0 THEN x ELSE 0 - x

\* score is num / den to the nearest hundredth of a point (round(x, 2)),
\* capped at 100
IsQuotientCapped(score, num, den) ==
    IF num >= 100 * Point * den
    THEN score = 100 * Point
    ELSE 2 * Abs(score * den - num) <= den

\* the contribution of a triggered pattern, in points
Contribution(pattern, session) ==
    CASE pattern = "short_conversation" -> 30
      [] pattern = "rapid_abandonment" -> 40
      [] pattern = "stuck_session" -> 35
      [] pattern = "repeated_messages" -> 25 * Min(Duplicates(session.messages), 3)
      [] pattern = "failed_session" -> 50
      [] pattern = "no_sentiment_analysis" -> 10

\* C13: the behavioural score is the arithmetic mean of the contributions of
\* the triggered patterns (to the hundredth of a point the score is rounded
\* to), capped at 100, and 0 when no pattern is triggered.
C13_BehavioralScoreIsMean ==
    Detected =>
        \A i \in 1..Len(Results) :
            LET r == Results[i].behavioral_patterns
                session == sessions[i]
                contributions ==
                    [k \in 1..Len(r.patterns) |-> Contribution(r.patterns[k], session)]
            IN  IF r.patterns = <<>>
                THEN r.score = 0
                ELSE IsQuotientCapped(r.score, SumSeq(contributions) * Point,
                                      Len(contributions))

\* C13 witness: short_conversation, repeated_messages and rapid_abandonment
\* are triggered and the score is 95 / 3 = 31.67
C13_Witness ==
    /\ Detected
    /\ \E i \in 1..Len(Results) :
          /\ Results[i].behavioral_patterns.patterns =
                <<"short_conversation", "rapid_abandonment", "repeated_messages">>
          /\ Results[i].behavioral_patterns.score = 3167

WeightOfThree ==
    ERROR_WEIGHTS.phrase_matching + ERROR_WEIGHTS.behavioral_patterns
    + ERROR_WEIGHTS.sentiment_correlation

Recombined == Step4Over /\ ai_phase \in {"completed", "aborted"} /\ ai_results # <<>>

\* the plain weighted sum of the four component scores of a result that
\* carries a judgment, in hundredths of a point times hundredths of weight
SumOfFour(r) ==
    r.phrase_detection.score * ERROR_WEIGHTS.phrase_matching
    + r.behavioral_patterns.score * ERROR_WEIGHTS.behavioral_patterns
    + r.sentiment_correlation.score * ERROR_WEIGHTS.sentiment_correlation
    + r.ai_analysis.score.val * ERROR_WEIGHTS.ai_analysis

\* C15: a result recombined with an analyzed judgment has as confidence_score
\* the plain weighted sum of its four component scores under the full weight
\* set (to the hundredth it is rounded to, neither renormalised nor capped),
\* as confidence_level the tier of that sum under the fixed thresholds 70 and
\* 40 and has_error from 40, whatever thresholds are configured; when the
\* recombination ran to its end every session with an analyzed judgment is
\* such a result.
C15_PostAiPlainSumFixedThresholds ==
    Recombined =>
        \A i \in 1..Len(Results) :
            LET r == Results[i]
            IN  /\ (ai_phase = "completed" /\ InAiResultsDict(ai_results, r.session_id))
                      => HasJudgment(r)
                /\ HasJudgment(r) =>
                      /\ r.ai_analysis = AiResultsDict(ai_results, r.session_id)
                      /\ 2 * Abs(r.confidence_score * 100 - SumOfFour(r)) <= 100
                      /\ r.confidence_level = "high" <=> SumOfFour(r) >= 70 * Point * 100
                      /\ r.confidence_level = "medium" <=>
                            /\ SumOfFour(r) >= 40 * Point * 100
                            /\ SumOfFour(r) < 70 * Point * 100
                      /\ r.confidence_level = "low" <=> SumOfFour(r) < 40 * Point * 100
                      /\ r.has_error <=> SumOfFour(r) >= 40 * Point * 100

\* C15 witness: with thresholds of 80 and 50 configured, a session scored
\* 23.85 and low before the judgment is recombined to 47.0 and medium
C15_Witness ==
    /\ Recombined
    /\ ai_phase = "completed"
    /\ settings = OtherThresholds
    /\ \E i \in 1..Len(Results) :
          /\ HasJudgment(Results[i])
          /\ basic.results[i].confidence_level = "low"
          /\ Results[i].confidence_score = 47 * Point
          /\ Results[i].confidence_level = "medium"
          /\ Results[i].has_error

\* C16 (as claimed): in the emitted result set the confidence_level of every
\* result, recombined or not, is the tier of its confidence_score under the
\* configured high and medium thresholds, so that results with the same score
\* have the same level.
C16_LevelIsTierOfScore ==
    Step4Over =>
        \A i \in 1..Len(Results) :
            Results[i].confidence_level =
                ConfidenceLevel(Results[i].confidence_score,
                                ERROR_THRESHOLDS.high, ERROR_THRESHOLDS.medium)

\* the score and the level of every session
ScoresAndLevels(results) ==
    [i \in 1..Len(results) |->
        <<results[i].confidence_score, results[i].confidence_level>>]

\* C17: applying combine_error_analyses once more, with the same judgments,
\* to the analysis it has produced leaves the confidence_score and the
\* confidence_level of every session as they are.
C17_RecombinationIdempotent ==
    Recombined =>
        ScoresAndLevels(combine_error_analyses(error_analysis, ai_results).analysis.results)
            = ScoresAndLevels(Results)

\* C17 witness: the recombination changed the score and the level of a
\* session and left another session as it was
C17_Witness ==
    /\ Recombined
    /\ ai_phase = "completed"
    /\ \E i \in 1..Len(Results) :
          /\ HasJudgment(Results[i])
          /\ Results[i].confidence_score # basic.results[i].confidence_score
          /\ Results[i].confidence_level # basic.results[i].confidence_level
    /\ \E i \in 1..Len(Results) : ~HasJudgment(Results[i])

\* the weights sum to 1.0 and the thresholds lie in [0, 100]
ValidConfiguration ==
    /\ ERROR_WEIGHTS.phrase_matching + ERROR_WEIGHTS.behavioral_patterns
          + ERROR_WEIGHTS.ai_analysis + ERROR_WEIGHTS.sentiment_correlation = 100
    /\ InRange(ERROR_THRESHOLDS.high)
    /\ InRange(ERROR_THRESHOLDS.medium)

\* C18 (as claimed): with weights that do not sum to 1.0 or a threshold
\* outside [0, 100] the system stops at startup: no session is ever scored.
C18_ConfigurationErrorFailsFast ==
    ~ValidConfiguration => (pc = "detect" /\ Results = <<>>)

\* started_at or ended_at is absent or cannot be used to compute a duration
TimestampFailure(session) ==
    \/ session.started_at.kind \in {"none", "bad"}
    \/ session.ended_at.kind \in {"none", "bad"}
    \/ session.started_at.kind # session.ended_at.kind

\* the session with timestamps that trigger no timing pattern (no time apart)
WithCalmTiming(session) ==
    [session EXCEPT !.started_at = At(100), !.ended_at = At(100)]

\* the session with the label Neutro
WithNeutro(session) == [session EXCEPT !.analyse_sentimental = "Neutro"]

TimingPatterns == {"rapid_abandonment", "stuck_session"}

\* timestamps and messages: a failure to read the timestamps suppresses the
\* timing patterns and nothing else, a session without messages has a phrase
\* score of 0 and no message pattern
MissingTimesAndMessagesNeutral(session, r) ==
    /\ TimestampFailure(session) =>
          /\ Range(r.behavioral_patterns.patterns) \cap TimingPatterns = {}
          /\ r.behavioral_patterns = detect_behavioral_errors(WithCalmTiming(session))
    /\ session.messages = <<>> =>
          /\ r.phrase_detection.score = 0
          /\ Range(r.behavioral_patterns.patterns)
                \cap {"short_conversation", "repeated_messages"} = {}

\* C19 (as claimed): every session is analysed, whatever fields it lacks; a
\* timestamp failure only suppresses rapid_abandonment and stuck_session; a
\* session without messages has phrase score 0; a session without sentiment
\* is scored as a session with the neutral label is.
C19_MissingFieldsNeutral ==
    Detected =>
        /\ Len(Results) = Len(sessions)
        /\ \A i \in 1..Len(Results) :
              /\ MissingTimesAndMessagesNeutral(sessions[i], Results[i])
              /\ sessions[i].analyse_sentimental = None =>
                    /\ Results[i].sentiment_correlation.score = 15 * Point
                    /\ Results[i].confidence_score =
                          analyze_session(WithNeutro(sessions[i])).confidence_score

\* C19 (amended): as claimed, except that a session without sentiment is
\* scored as a session with the neutral label only when its status is not
\* active; an active session without sentiment also triggers the pattern
\* no_sentiment_analysis, with a contribution of 10 to the behavioural mean.
C19_MissingFieldsHandled ==
    Detected =>
        /\ Len(Results) = Len(sessions)
        /\ \A i \in 1..Len(Results) :
              LET neutro == analyze_session(WithNeutro(sessions[i]))
              IN  /\ MissingTimesAndMessagesNeutral(sessions[i], Results[i])
                  /\ sessions[i].analyse_sentimental = None =>
                        /\ Results[i].sentiment_correlation.score = 15 * Point
                        /\ IF sessions[i].status = "active"
                           THEN Results[i].behavioral_patterns.patterns =
                                  Append(neutro.behavioral_patterns.patterns,
                                         "no_sentiment_analysis")
                           ELSE Results[i].confidence_score = neutro.confidence_score

\* C19 witness: an active session with an unparseable ended_at, no sentiment
\* and no messages is analysed: no_sentiment_analysis alone is triggered
C19_Witness ==
    /\ Detected
    /\ sessions[1].status = "active"
    /\ sessions[1].ended_at = Malformed
    /\ sessions[1].analyse_sentimental = None
    /\ sessions[1].messages = <<>>
    /\ Results[1].phrase_detection.score = 0
    /\ Results[1].sentiment_correlation.score = 15 * Point
    /\ Results[1].behavioral_patterns.patterns = <<"no_sentiment_analysis">>
    /\ Results[1].behavioral_patterns.score = 10 * Point

\* the (message, phrase) pairs of a category in which the case-folded content
\* contains the case-folded phrase
Hits(session, phrases) ==
    Cardinality({pair \in (1..Len(session.messages)) \X (1..Len(phrases)) :
                    Contains(lower(session.messages[pair[1]].content),
                             lower(phrases[pair[2]]))})

\* C20: the phrase score is min(100, 10 x (1.0 x error_indicators hits + 1.5 x
\* frustration_indicators hits + 2.0 x escalation_phrases hits)), a hit being
\* a (message, phrase) pair in which the case-folded content contains the
\* phrase; a session without messages scores 0.
C20_PhraseScoreFormula ==
    Detected =>
        \A i \in 1..Len(Results) :
            LET e == Hits(sessions[i], error_phrases.error_indicators)
                f == Hits(sessions[i], error_phrases.frustration_indicators)
                x == Hits(sessions[i], error_phrases.escalation_phrases)
            IN  /\ Results[i].phrase_detection.score =
                      Min(100 * Point, 10 * (100 * e + 150 * f + 200 * x))
                /\ Results[i].phrase_detection.total_matches = e + f + x
                /\ sessions[i].messages = <<>> => Results[i].phrase_detection.score = 0

\* C20 witness: the phrase "a" is found in two messages, one of them written
\* in upper case, and counts twice: the score is 20
C20_Witness ==
    /\ Detected
    /\ Len(sessions[1].messages) = 2
    /\ sessions[1].messages[1].content = <<" ", "A">>
    /\ sessions[1].messages[2].content = <<"a">>
    /\ Results[1].phrase_detection.categories.error_indicators = 2
    /\ Results[1].phrase_detection.score = 20 * Point

PatternsOf(r) == Range(r.behavioral_patterns.patterns)

\* C21: short_conversation is triggered exactly when 0 < message_count <
\* SHORT_CONVERSATION_THRESHOLD, failed_session exactly when the status is
\* failed, no_sentiment_analysis exactly when the sentiment is absent and the
\* status is active; a session without messages never triggers
\* repeated_messages.
C21_PatternTriggers ==
    Detected =>
        \A i \in 1..Len(Results) :
            LET s == sessions[i]
                patterns == PatternsOf(Results[i])
            IN  /\ "short_conversation" \in patterns <=>
                      (0 < Len(s.messages)
                       /\ Len(s.messages) < SHORT_CONVERSATION_THRESHOLD)
                /\ "failed_session" \in patterns <=> s.status = "failed"
                /\ "no_sentiment_analysis" \in patterns <=>
                      (s.analyse_sentimental = None /\ s.status = "active")
                /\ s.messages = <<>> => "repeated_messages" \notin patterns

\* C21 witness: a failed session with three messages triggers failed_session
\* and not short_conversation
C21_Witness ==
    /\ Detected
    /\ Len(sessions[1].messages) = 3
    /\ sessions[1].status = "failed"
    /\ "failed_session" \in PatternsOf(Results[1])
    /\ "short_conversation" \notin PatternsOf(Results[1])
    /\ "no_sentiment_analysis" \notin PatternsOf(Results[1])

\* the scenario of the specification: default weights and thresholds, two
\* messages, status active, 90 seconds, Negativo, and a phrase of the error
\* or frustration category found
Scenario90Seconds(i) ==
    /\ settings = RepositorySettings
    /\ Len(sessions[i].messages) = 2
    /\ sessions[i].status = "active"
    /\ sessions[i].started_at = At(100)
    /\ sessions[i].ended_at = At(190)
    /\ sessions[i].analyse_sentimental = "Negativo"
    /\ Results[i].phrase_detection.categories.error_indicators
          + Results[i].phrase_detection.categories.frustration_indicators >= 1

ReadsNegativo == {"Negativo", " NEGATIVO "}
ReadsNeutro == {"Neutro"}
ReadsPositivo == {"Positivo"}

\* C23: the sentiment score depends on the trimmed, case-folded label alone:
\* 80 for negativo, 15 for neutro, 5 for positivo, and 15 for an absent or
\* unrecognized label.
C23_SentimentLookup ==
    Detected =>
        \A i \in 1..Len(Results) :
            LET label == sessions[i].analyse_sentimental
                score == Results[i].sentiment_correlation.score
            IN  /\ label \in ReadsNegativo => score = 80 * Point
                /\ label \in ReadsNeutro => score = 15 * Point
                /\ label \in ReadsPositivo => score = 5 * Point
                /\ label \notin ReadsNegativo \cup ReadsNeutro \cup ReadsPositivo
                      => score = 15 * Point

\* C23 witness: a label written in upper case between spaces scores 80
C23_Witness ==
    /\ Detected
    /\ sessions[1].analyse_sentimental = " NEGATIVO "
    /\ Results[1].sentiment_correlation.score = 80 * Point

\* both timestamps are present and give a duration
TimestampsUsable(session) ==
    /\ session.started_at.kind \in {"ok", "naive"}
    /\ session.ended_at.kind = session.started_at.kind

SecondsBetween(session) == session.ended_at.t - session.started_at.t

InRapidWindow(session) ==
    /\ TimestampsUsable(session)
    /\ 0 < SecondsBetween(session)
    /\ SecondsBetween(session) < RAPID_ABANDONMENT_THRESHOLD

\* C24: rapid_abandonment and stuck_session are never both triggered, whatever
\* the two timing thresholds are: rapid_abandonment is triggered when both
\* timestamps are usable and 0 < duration < RAPID_ABANDONMENT_THRESHOLD, and
\* stuck_session only otherwise, when the status is active and duration >
\* STUCK_SESSION_THRESHOLD.
C24_RapidAndStuckExclusive ==
    Detected =>
        \A i \in 1..Len(Results) :
            LET s == sessions[i]
                patterns == PatternsOf(Results[i])
            IN  /\ ~({"rapid_abandonment", "stuck_session"} \subseteq patterns)
                /\ "rapid_abandonment" \in patterns <=> InRapidWindow(s)
                /\ "stuck_session" \in patterns <=>
                      /\ TimestampsUsable(s)
                      /\ ~InRapidWindow(s)
                      /\ s.status = "active"
                      /\ SecondsBetween(s) > STUCK_SESSION_THRESHOLD

\* C24 witness: with a stuck threshold of 60 seconds below the rapid threshold
\* of 120, an active session of 90 seconds is past both; rapid_abandonment
\* alone is triggered
C24_Witness ==
    /\ Detected
    /\ STUCK_SESSION_THRESHOLD < RAPID_ABANDONMENT_THRESHOLD
    /\ sessions[1].status = "active"
    /\ TimestampsUsable(sessions[1])
    /\ SecondsBetween(sessions[1]) > STUCK_SESSION_THRESHOLD
    /\ SecondsBetween(sessions[1]) < RAPID_ABANDONMENT_THRESHOLD
    /\ "rapid_abandonment" \in PatternsOf(Results[1])
    /\ "stuck_session" \notin PatternsOf(Results[1])

\* the human messages of a session whose content, trimmed, is not empty
HumanWithContent(session) ==
    {k \in 1..Len(session.messages) :
        /\ session.messages[k].type = "human"
        /\ strip(session.messages[k].content) # <<>>}

\* d: the number of those messages minus the number of distinct trimmed,
\* case-folded contents among them
RepeatCount(session) ==
    Cardinality(HumanWithContent(session))
    - Cardinality({lower(strip(session.messages[k].content)) :
                      k \in HumanWithContent(session)})

\* C25: repeated_messages is triggered exactly when d >= 1, d being the number
\* of human messages with non-empty trimmed content minus the number of
\* distinct trimmed, case-folded contents among them; it contributes
\* 25 x min(d, 3) to the behavioural mean; messages of other roles are not
\* counted.
C25_RepeatedMessages ==
    Detected =>
        \A i \in 1..Len(Results) :
            LET s == sessions[i]
                r == Results[i].behavioral_patterns
                d == RepeatCount(s)
                Other(pattern) == pattern # "repeated_messages"
                others == SelectSeq(r.patterns, Other)
                sum == SumSeq([k \in 1..Len(others) |-> Contribution(others[k], s)])
            IN  /\ "repeated_messages" \in Range(r.patterns) <=> d >= 1
                /\ d >= 1 =>
                      IsQuotientCapped(r.score, (sum + 25 * Min(d, 3)) * Point,
                                       Len(others) + 1)

\* C25 witness: five identical human messages, d = 4, contribute 75 alone
C25_Witness ==
    /\ Detected
    /\ Len(sessions[1].messages) = 5
    /\ RepeatCount(sessions[1]) = 4
    /\ Results[1].behavioral_patterns.patterns = <<"repeated_messages">>
    /\ Results[1].behavioral_patterns.score = 75 * Point

\* what step 5 appended to the selection of steps 1 to 4
Fill ==
    SubSeq(sessions_to_analyze, Len(Priorities1To4) + 1, Len(sessions_to_analyze))

\* C26: after step 5 at least int(population size x target rate) sessions are
\* selected: when steps 1 to 4 selected fewer, step 5 appends that many
\* distinct sessions they had not selected; when they selected at least the
\* target, step 5 appends nothing.
C26_FillUpToTarget ==
    Selected =>
        /\ Len(sessions_to_analyze) >= TargetTotal
        /\ SubSeq(sessions_to_analyze, 1, Len(Priorities1To4)) = Priorities1To4
        /\ IF Len(Priorities1To4) < TargetTotal
           THEN /\ Len(Fill) = TargetTotal - Len(Priorities1To4)
                /\ Cardinality(Ids(Fill)) = Len(Fill)
                /\ Ids(Fill) \cap Ids(Priorities1To4) = {}
                /\ Ids(Fill) \subseteq Ids(sessions)
           ELSE Fill = <<>>

\* C26 witness: steps 1 to 4 select nothing from a population whose target is
\* two, and step 5 samples two sessions
C26_Witness ==
    /\ Selected
    /\ Priorities1To4 = <<>>
    /\ TargetTotal = 2
    /\ Len(Fill) = 2

\* the session of a result was selected and the judge answered it with a
\* JSON object: its judgment is analyzed
JudgedAnalyzed(result) ==
    \E k \in Submitted :
        /\ sessions_to_analyze[k].id = result.session_id
        /\ Called(k)
        /\ OutcomeFor(sessions_to_analyze[k]).kind = "object"

\* the judgment of the session of a result is degraded
JudgedDegraded(result) ==
    \E k \in 1..Len(ai_results) :
        ai_results[k].session_id = result.session_id /\ ~ai_results[k].analyzed

\* C27: recombination leaves the result of every session without an analyzed
\* judgment (not selected, or judged with a degraded judgment) exactly as the
\* pre-AI ensemble computed it: score, level, has_error, and no judgment
\* attached; the score of a degraded judgment enters no combined score.
C27_OnlyAnalyzedRecombined ==
    Step4Over =>
        \A i \in 1..Len(Results) :
            ~JudgedAnalyzed(Results[i]) =>
                /\ Results[i].confidence_score = basic.results[i].confidence_score
                /\ Results[i].confidence_level = basic.results[i].confidence_level
                /\ Results[i].has_error = basic.results[i].has_error
                /\ ~HasJudgment(Results[i])

\* C27 witness: the recombination has run over a session with a degraded
\* judgment of score 50, left as it was, a session it recombined, and a
\* session that was not selected
C27_Witness ==
    /\ Recombined
    /\ ai_phase = "completed"
    /\ \E i \in 1..Len(Results) :
          /\ JudgedDegraded(Results[i])
          /\ \E k \in 1..Len(ai_results) :
                /\ ai_results[k].session_id = Results[i].session_id
                /\ ai_results[k].score = Num(50 * Point)
          /\ Results[i] = basic.results[i]
    /\ \E i \in 1..Len(Results) :
          /\ JudgedAnalyzed(Results[i])
          /\ Results[i].confidence_score # basic.results[i].confidence_score
    /\ \E i \in 1..Len(Results) :
          /\ Results[i].session_id \notin Ids(sessions_to_analyze)
          /\ Results[i] = basic.results[i]

\* step 4 of main ended in its except branch
Aborted == Step4Over /\ ai_phase = "aborted"

\* C28 (as claimed): when the AI phase aborts with an exception, the analysis
\* the orchestrator goes on with is the pre-AI one: every result is as the
\* detectors left it, none carries a post-AI score or level.
C28_AbortLeavesPreAiResults ==
    Aborted => Results = basic.results

\* C29 (as claimed): in the analysis that is saved, the summary counts
\* high_confidence_errors, medium_confidence_errors and low_confidence_errors
\* are the numbers of results at each confidence_level, and they add up to
\* total_sessions.
C29_SummaryCountsMatchResults ==
    Step4Over =>
        /\ error_analysis.high_confidence_errors = CountLevel(Results, "high")
        /\ error_analysis.medium_confidence_errors = CountLevel(Results, "medium")
        /\ error_analysis.low_confidence_errors = CountLevel(Results, "low")
        /\ error_analysis.high_confidence_errors
              + error_analysis.medium_confidence_errors
              + error_analysis.low_confidence_errors = error_analysis.total_sessions

\* what one invocation running alone returns for the inputs of the state
SelectedAlone ==
    select_sessions_for_analysis(sessions, error_analysis.results, rng, mt).selected

\* C30 (as claimed): two invocations of select_sessions_for_analysis running
\* concurrently on the same inputs do not interfere: however their seeding
\* and sampling steps interleave, each returns the set of identifiers that a
\* single invocation running alone returns.
C30_ConcurrentSelectionsDoNotInterfere ==
    \A t \in DOMAIN calls :
        calls[t].at = "returned" => Ids(calls[t].selected) = Ids(SelectedAlone)

=============================================================================
